---- MODULE Spec2Model ----
(***************************************************************************)
(* Model of app.py: the Flask handler of POST /api/keyword-ideas, the      *)
(* provider request built by generate_keyword_ideas, and the chart drawn   *)
(* by create_visualization through matplotlib.pyplot.                      *)
(*                                                                         *)
(* Conventions.                                                            *)
(*  - A Python value is a tagged record: [t |-> "None"], [t |-> "str", v], *)
(*    [t |-> "list", v], [t |-> "bool", v]; a key that is not in the JSON  *)
(*    body is Absent.  The request body is a JSON object.                  *)
(*  - A Python str is the sequence of its tokens; the provider's namespace *)
(*    prefixes "languageConstants/" and "geoTargetConstants/" are tokens,  *)
(*    so that str.startswith is computed, not assumed.                     *)
(*  - Three specifications: Spec (one request through the handler),        *)
(*    SpecViz (create_visualization's ranking on long lists) and SpecConc  *)
(*    (threads of the server inside create_visualization).                 *)
(***************************************************************************)
EXTENDS Integers, Sequences, FiniteSets, TLC

VARIABLES
    data,               \* request.json of the request being handled
    pc,                 \* position of the handler
    client_calls,       \* number of calls of get_google_ads_client
    rpc_calls,          \* number of generate_keyword_ideas RPCs sent
    sent,               \* the provider requests sent, in order
    keyword_ideas,      \* ideas the provider's pager has still to yield
    formatted_results,  \* the handler's local list
    df_sorted,          \* rows plotted by the last create_visualization
    responses,          \* HTTP responses sent for the request (at most one)
    raised,             \* exceptions raised while the request was handled
    Gcf,                \* pyplot's process-wide figure registry, last = current
    th_pc,              \* per thread: position inside create_visualization
    th_data,            \* per thread: keyword_data of its call
    th_sorted,          \* per thread: its df_sorted
    th_graphic          \* per thread: the figure content its savefig encoded

vars == <<data, pc, client_calls, rpc_calls, sent, keyword_ideas,
          formatted_results, df_sorted, responses, raised, Gcf,
          th_pc, th_data, th_sorted, th_graphic>>

handler_vars == <<data, pc, client_calls, rpc_calls, sent, keyword_ideas,
                  formatted_results, df_sorted, responses, raised>>

thread_vars == <<th_pc, th_data, th_sorted, th_graphic>>

----------------------------------------------------------------------------
(* Bounds *)

MaxIdeas == 2       \* ideas returned by the provider in Spec
MaxData == 17       \* length of keyword_data in SpecViz
NumThreads == 2     \* server threads in SpecConc

----------------------------------------------------------------------------
(* Python values *)

Absent == [t |-> "absent"]
PyNone == [t |-> "None"]
Str(s) == [t |-> "str", v |-> s]
List(l) == [t |-> "list", v |-> l]
Bool(b) == [t |-> "bool", v |-> b]

\* Python truth value testing
Truthy(x) ==
    CASE x.t = "None" -> FALSE
      [] x.t = "str"  -> Len(x.v) > 0
      [] x.t = "list" -> Len(x.v) > 0
      [] x.t = "bool" -> x.v

\* dict.get(key, default) on the JSON body
get(d, key, default) == IF d[key].t = "absent" THEN default ELSE d[key]

\* str.startswith
startswith(s, prefix) ==
    Len(s) >= Len(prefix) /\ SubSeq(s, 1, Len(prefix)) = prefix

----------------------------------------------------------------------------
(* generate_keyword_ideas: parameter normalisation and the provider request *)

language_mapping ==
    (<<"en">> :> <<"languageConstants/", "1000">>) @@
    (<<"es">> :> <<"languageConstants/", "1003">>) @@
    (<<"fr">> :> <<"languageConstants/", "1002">>) @@
    (<<"de">> :> <<"languageConstants/", "1001">>) @@
    (<<"pt">> :> <<"languageConstants/", "1014">>) @@
    (<<"it">> :> <<"languageConstants/", "1004">>) @@
    (<<"ru">> :> <<"languageConstants/", "1031">>) @@
    (<<"ja">> :> <<"languageConstants/", "1005">>) @@
    (<<"zh">> :> <<"languageConstants/", "1017">>)

location_mapping ==
    (<<"US">> :> <<"geoTargetConstants/", "2840">>) @@
    (<<"CA">> :> <<"geoTargetConstants/", "2124">>) @@
    (<<"GB">> :> <<"geoTargetConstants/", "2826">>) @@
    (<<"AU">> :> <<"geoTargetConstants/", "2036">>) @@
    (<<"DE">> :> <<"geoTargetConstants/", "2276">>) @@
    (<<"FR">> :> <<"geoTargetConstants/", "2250">>) @@
    (<<"ES">> :> <<"geoTargetConstants/", "2724">>)

\* x.startswith(...) on a value that is not a str
AttributeError ==
    [type |-> "AttributeError",
     msg  |-> <<"object has no attribute 'startswith'">>]

\* client.get_type("GenerateKeywordIdeasRequest"): nothing set.  seed is the
\* message's oneof group: a function from the members that are set to their
\* values.
GenerateKeywordIdeasRequest ==
    [customer_id |-> Absent,
     language |-> <<>>,
     geo_target_constants |-> <<>>,
     seed |-> <<>>]

\* Assigning a member of the oneof group `seed`
\* (request.keyword_seed = ..., request.url_seed = ..., request.site_seed = ...):
\* protobuf keeps at most one member of a oneof set, the one assigned last.
set_seed(request, member, value) ==
    [request EXCEPT !.seed = (member :> value)]

\* "Set the language properly"; [ok |-> FALSE] when the code raises
set_language(request, language) ==
    IF language.t = "str" /\ language.v \in DOMAIN language_mapping
    THEN [ok |-> TRUE,
          request |-> [request EXCEPT !.language = language_mapping[language.v]]]
    ELSE IF language.t # "str"
    THEN [ok |-> FALSE, exc |-> AttributeError]
    ELSE IF startswith(language.v, <<"languageConstants/">>)
    THEN [ok |-> TRUE, request |-> [request EXCEPT !.language = language.v]]
    ELSE [ok |-> TRUE,
          request |-> [request EXCEPT
                          !.language = <<"languageConstants/", "1000">>]]

\* Mutant of set_location: a value already in the provider's form is not
\* recognised and gets the default
set_location_no_prefix(request, location) ==
    IF location.t = "str" /\ location.v \in DOMAIN location_mapping
    THEN [ok |-> TRUE,
          request |-> [request EXCEPT !.geo_target_constants =
                          Append(@, location_mapping[location.v])]]
    ELSE IF location.t # "str"
    THEN [ok |-> FALSE, exc |-> AttributeError]
    ELSE IF Truthy(location)
    THEN [ok |-> TRUE,
          request |-> [request EXCEPT !.geo_target_constants =
                          Append(@, <<"geoTargetConstants/", "2840">>)]]
    ELSE [ok |-> TRUE, request |-> request]

\* "Set the location properly"
set_location(request, location) ==
    IF location.t = "str" /\ location.v \in DOMAIN location_mapping
    THEN [ok |-> TRUE,
          request |-> [request EXCEPT !.geo_target_constants =
                          Append(@, location_mapping[location.v])]]
    ELSE IF location.t # "str"
    THEN [ok |-> FALSE, exc |-> AttributeError]
    ELSE IF startswith(location.v, <<"geoTargetConstants/">>)
    THEN [ok |-> TRUE,
          request |-> [request EXCEPT !.geo_target_constants =
                          Append(@, location.v)]]
    ELSE IF Truthy(location)
    THEN [ok |-> TRUE,
          request |-> [request EXCEPT !.geo_target_constants =
                          Append(@, <<"geoTargetConstants/", "2840">>)]]
    ELSE [ok |-> TRUE, request |-> request]

\* "Add keywords if provided"
add_keyword_seed(request, keywords) ==
    IF Truthy(keywords) /\ Len(keywords.v) > 0
    THEN set_seed(request, "keyword_seed", [keywords |-> keywords.v])
    ELSE request

\* "Add page URL if provided"
add_url_seed(request, page_url) ==
    IF Truthy(page_url)
    THEN set_seed(request, "url_seed", [url |-> page_url.v])
    ELSE request

\* "Add competitor domains if provided"
add_site_seed(request, competitors_domains) ==
    IF Truthy(competitors_domains) /\ Len(competitors_domains.v) > 0
    THEN set_seed(request, "site_seed", [sites |-> competitors_domains.v])
    ELSE request

\* The request generate_keyword_ideas has built when it reaches the RPC, or
\* the exception it raised before.
build_request(customer_id, keywords, language, location, page_url, competitors_domains) ==
    LET r0 == [GenerateKeywordIdeasRequest EXCEPT !.customer_id = customer_id]
        l  == set_language(r0, language)
        g  == set_location(l.request, location)
    IN  IF ~l.ok THEN l
        ELSE IF ~g.ok THEN g
        ELSE [ok |-> TRUE,
              request |-> add_site_seed(
                              add_url_seed(
                                  add_keyword_seed(g.request, keywords),
                                  page_url),
                              competitors_domains)]

----------------------------------------------------------------------------
(* The result formatter *)

\* round(micros / 1000000, 2) if micros else 0, in hundredths of a currency
\* unit.  A value half-way between two hundredths is rounded by Python on
\* the float's binary value; it is taken to the even hundredth here, and no
\* idea of SampleIdeas is half-way.
bid(micros) ==
    IF micros = 0 THEN 0
    ELSE LET q == micros \div 10000
             r == micros % 10000
         IN  IF r > 5000 \/ (r = 5000 /\ q % 2 = 1) THEN q + 1 ELSE q

\* One entry of formatted_results
format_idea(idea) ==
    [text |-> idea.text,
     search_volume |-> idea.avg_monthly_searches,
     competition |-> <<"KeywordPlanCompetitionLevel.", idea.competition>>,
     competition_index |-> idea.competition_index,
     low_top_of_page_bid |-> bid(idea.low_top_of_page_bid_micros),
     high_top_of_page_bid |-> bid(idea.high_top_of_page_bid_micros)]

----------------------------------------------------------------------------
(* create_visualization: pandas and matplotlib.pyplot *)

\* df.head(15)
HeadRows == 15

\* pd.DataFrame(keyword_data): one row per entry, labelled 0, 1, ...
DataFrame(keyword_data) ==
    { [index |-> i - 1,
       text |-> keyword_data[i].text,
       search_volume |-> keyword_data[i].search_volume]
      : i \in 1 .. Len(keyword_data) }

MaxVolume(rows) ==
    CHOOSE m \in { r.search_volume : r \in rows } :
        \A r \in rows : r.search_volume <= m

\* df.sort_values('search_volume', ascending=False): the kind of sort is left
\* at pandas' default, 'quicksort', which is not stable, so every order that
\* is descending in search_volume is a possible result.
RECURSIVE sort_values(_)
sort_values(rows) ==
    IF rows = {} THEN { <<>> }
    ELSE LET top == { r \in rows : r.search_volume = MaxVolume(rows) }
         IN  UNION { { <<r>> \o rest : rest \in sort_values(rows \ {r}) }
                     : r \in top }

\* Mutant of head: one row short
head_short(rows, n) == SubSeq(rows, 1, IF Len(rows) < n THEN Len(rows) ELSE n - 1)

\* DataFrame.head(n)
head(rows, n) == SubSeq(rows, 1, IF Len(rows) < n THEN Len(rows) ELSE n)

\* A figure of pyplot with nothing drawn
Figure ==
    [figsize |-> <<12, 6>>, bars |-> <<>>, xticks |-> <<>>,
     xlabel |-> <<>>, ylabel |-> <<>>, title |-> <<>>, tight |-> FALSE]

\* plt.figure(figsize=(12, 6)): a new figure enters the registry and becomes
\* the current one
plt_figure(g) == Append(g, Figure)

\* plt.bar(x, height): drawn on the current figure
plt_bar(g, rows) ==
    [g EXCEPT ![Len(g)].bars =
        @ \o [i \in 1 .. Len(rows) |->
                 [x |-> rows[i].text, height |-> rows[i].search_volume]]]

\* plt.xticks(rotation=45, ha='right')
plt_xticks(g) == [g EXCEPT ![Len(g)].xticks = <<"45", "right">>]

\* plt.xlabel('Keywords')
plt_xlabel(g) == [g EXCEPT ![Len(g)].xlabel = <<"Keywords">>]

\* plt.ylabel('Average Monthly Searches')
plt_ylabel(g) == [g EXCEPT ![Len(g)].ylabel = <<"Average Monthly Searches">>]

\* plt.title('Keyword Popularity')
plt_title(g) == [g EXCEPT ![Len(g)].title = <<"Keyword Popularity">>]

\* plt.tight_layout()
plt_tight_layout(g) == [g EXCEPT ![Len(g)].tight = TRUE]

\* plt.savefig(buffer, format='png'); buffer.getvalue(): the PNG of the
\* current figure, a signature followed by the picture
plt_savefig(g) == << [chunk |-> "PNG"], [chunk |-> "IDAT", figure |-> g[Len(g)]] >>

\* base64.b64encode(image_png).decode('utf-8')
b64encode(bytes) == Str([i \in 1 .. Len(bytes) |-> [b64 |-> bytes[i]]])

\* base64.b64decode
b64decode(s) == [i \in 1 .. Len(s.v) |-> s.v[i].b64]

\* The figure a graphic shows
figure_of(graphic) == b64decode(graphic)[2].figure

\* The whole of create_visualization run without interruption on registry g,
\* with `rows` the outcome of its sort: the registry it leaves and the
\* graphic it returns
create_visualization(g, rows) ==
    LET g1 == plt_figure(g)
        g2 == plt_bar(g1, head(rows, HeadRows))
        g3 == plt_tight_layout(plt_title(plt_ylabel(plt_xlabel(plt_xticks(g2)))))
    IN  [Gcf |-> g3, graphic |-> b64encode(plt_savefig(g3))]

----------------------------------------------------------------------------
(* get_keyword_ideas: the handler of POST /api/keyword-ideas *)

\* The locals the handler reads from the body
data_customer_id(d) == get(d, "customer_id", PyNone)
data_keywords(d) == get(d, "keywords", List(<<>>))
data_language(d) == get(d, "language", Str(<<"en">>))
data_location(d) == get(d, "location", Str(<<"US">>))
data_page_url(d) == get(d, "page_url", PyNone)
\* Mutant of data_competitors_domains: the list is read under another key
data_competitor_domains(d) == get(d, "competitor_domains", List(<<>>))

data_competitors_domains(d) == get(d, "competitors_domains", List(<<>>))
data_create_visualization(d) == get(d, "create_visualization", Bool(TRUE))

\* if not customer_id
missing_customer_id(d) == ~Truthy(data_customer_id(d))

\* Mutant of missing_seed: only a body without the three keys is rejected
missing_seed_only_absent(d) ==
    /\ d.keywords.t = "absent"
    /\ d.page_url.t = "absent"
    /\ d.competitors_domains.t = "absent"

\* if not keywords and not page_url and not competitors_domains
missing_seed(d) ==
    /\ ~Truthy(data_keywords(d))
    /\ ~Truthy(data_page_url(d))
    /\ ~Truthy(data_competitors_domains(d))

MissingCustomerId ==
    [status |-> 400,
     body |-> [error |-> <<"Missing required parameter: customer_id">>]]

MissingSeed ==
    [status |-> 400,
     body |-> [error |-> <<"You must provide at least one of: keywords, page_url, or competitors_domains">>]]

\* str(ex)
str(ex) ==
    IF ex.type = "GoogleAdsException"
    THEN <<"GoogleAdsException: ", ex.code>>
    ELSE ex.msg

\* Mutant of on_GoogleAdsException: the last message instead of the first
on_GoogleAdsException_last(ex) ==
    [status |-> 400,
     body |-> [error |-> <<"Google Ads API error: ", ex.code>>,
               detail |-> IF Len(ex.errors) > 0
                          THEN ex.errors[Len(ex.errors)] ELSE str(ex)]]

\* except GoogleAdsException as ex
on_GoogleAdsException(ex) ==
    [status |-> 400,
     body |-> [error |-> <<"Google Ads API error: ", ex.code>>,
               detail |-> IF Len(ex.errors) > 0 THEN ex.errors[1] ELSE str(ex)]]

\* Mutant of on_Exception: what was formatted so far is returned with the error
on_Exception_partial(e) ==
    [status |-> 500,
     body |-> [error |-> str(e), keyword_ideas |-> formatted_results]]

\* except Exception as e
on_Exception(e) == [status |-> 500, body |-> [error |-> str(e)]]

\* The except clause that catches ex, and its response
handle(ex) ==
    IF ex.type = "GoogleAdsException"
    THEN on_GoogleAdsException(ex)
    ELSE on_Exception(ex)

\* Mutant of response_data: the key is always set, to null without a chart
response_data_null(results, visualization_url) ==
    [status |-> 200,
     body |-> [keyword_ideas |-> results, visualization |-> visualization_url]]

\* response_data as jsonify receives it; the status defaults to 200
response_data(results, visualization_url) ==
    [status |-> 200,
     body |-> IF Truthy(visualization_url)
              THEN [keyword_ideas |-> results,
                    visualization |-> visualization_url]
              ELSE [keyword_ideas |-> results]]

(* What the environment can do *)

\* GoogleAdsException raised by the provider: error.code().name and
\* failure.errors[*].message
GoogleAdsExceptions ==
    { [type |-> "GoogleAdsException", code |-> c, errors |-> e]
      : c \in {"RESOURCE_EXHAUSTED", "INVALID_ARGUMENT"},
        e \in { <<>>, << <<"Too many requests">> >>,
                << <<"Too many requests">>, <<"Retry later">> >> } }

TransportError == [type |-> "Exception", msg |-> <<"503 failed to connect">>]
ConfigError == [type |-> "ValueError", msg |-> <<"A required field in the configuration data was not found">>]
RenderError == [type |-> "MemoryError", msg |-> <<"In RendererAgg: Out of memory">>]

SampleIdeas ==
    { [text |-> "running shoes", avg_monthly_searches |-> 5400,
       competition |-> "HIGH", competition_index |-> 87,
       low_top_of_page_bid_micros |-> 2500000,
       high_top_of_page_bid_micros |-> 0],
      [text |-> "trail shoes", avg_monthly_searches |-> 5400,
       competition |-> "LOW", competition_index |-> 12,
       low_top_of_page_bid_micros |-> 0,
       high_top_of_page_bid_micros |-> 1234999] }

RECURSIVE SeqsUpTo(_, _)
SeqsUpTo(S, n) ==
    IF n = 0 THEN { <<>> }
    ELSE LET shorter == SeqsUpTo(S, n - 1)
         IN  shorter \cup { Append(q, x) : q \in shorter, x \in S }

Bodies ==
    [customer_id : {Absent, Str(<<>>), Str(<<"1234567890">>)},
     keywords : {Absent, List(<<>>), List(<<"shoes", "boots">>)},
     language : {Absent, Str(<<"fr">>), Str(<<"xx">>), Str(<<>>),
                 Str(<<"languageConstants/", "1010">>), PyNone},
     location : {Absent, Str(<<"GB">>), Str(<<"gb">>), Str(<<>>),
                 Str(<<"geoTargetConstants/", "2392">>), PyNone},
     page_url : {Absent, Str(<<>>), Str(<<"https://example.com/">>)},
     competitors_domains : {Absent, List(<<>>), List(<<"a.com", "b.com">>)},
     competitor_domains : {Absent, List(<<"a.com", "b.com">>)},
     create_visualization : {Absent, Bool(TRUE), Bool(FALSE), PyNone}]

Init ==
    /\ data \in Bodies
    /\ pc = "recv"
    /\ client_calls = 0
    /\ rpc_calls = 0
    /\ sent = <<>>
    /\ keyword_ideas = <<>>
    /\ formatted_results = <<>>
    /\ df_sorted = <<>>
    /\ responses = <<>>
    /\ raised = <<>>
    /\ Gcf = <<>>
    /\ th_pc = <<>>
    /\ th_data = <<>>
    /\ th_sorted = <<>>
    /\ th_graphic = <<>>

\* return jsonify(...), status
Return(r) ==
    /\ responses' = Append(responses, r)
    /\ pc' = "done"

\* ex is raised inside the try block: its except clause answers
Raise(ex) ==
    /\ raised' = Append(raised, ex)
    /\ Return(handle(ex))

\* Lines 49-63: read the body, reject a request without customer id or seed
Validate ==
    /\ pc = "recv"
    /\ IF missing_customer_id(data) THEN Return(MissingCustomerId)
       ELSE IF missing_seed(data) THEN Return(MissingSeed)
       ELSE pc' = "get_client" /\ UNCHANGED responses
    /\ UNCHANGED <<data, client_calls, rpc_calls, sent, keyword_ideas,
                   formatted_results, df_sorted, raised, Gcf, thread_vars>>

\* Line 66: client = get_google_ads_client(), which loads google-ads.yaml or
\* the environment and raises when the configuration is incomplete
GetClient ==
    /\ pc = "get_client"
    /\ client_calls' = client_calls + 1
    /\ \/ pc' = "generate" /\ UNCHANGED <<responses, raised>>
       \/ Raise(ConfigError)
    /\ UNCHANGED <<data, rpc_calls, sent, keyword_ideas, formatted_results,
                   df_sorted, Gcf, thread_vars>>

\* Lines 69-77 and 120-202: generate_keyword_ideas builds the request and
\* sends it; the RPC returns a pager or raises
GenerateKeywordIdeas ==
    /\ pc = "generate"
    /\ LET b == build_request(data_customer_id(data), data_keywords(data),
                              data_language(data), data_location(data),
                              data_page_url(data),
                              data_competitors_domains(data))
       IN  IF ~b.ok
           THEN /\ Raise(b.exc)
                /\ UNCHANGED <<rpc_calls, sent, keyword_ideas>>
           ELSE /\ rpc_calls' = rpc_calls + 1
                /\ sent' = Append(sent, b.request)
                /\ \/ \E ideas \in SeqsUpTo(SampleIdeas, MaxIdeas) :
                          /\ keyword_ideas' = ideas
                          /\ pc' = "format"
                          /\ UNCHANGED <<responses, raised>>
                   \/ \E ex \in GoogleAdsExceptions \cup {TransportError} :
                          /\ Raise(ex)
                          /\ UNCHANGED keyword_ideas
    /\ UNCHANGED <<data, client_calls, formatted_results, df_sorted, Gcf,
                   thread_vars>>

\* Lines 81-93: one turn of `for idea in keyword_ideas`
FormatIdea ==
    /\ pc = "format"
    /\ keyword_ideas # <<>>
    /\ formatted_results' =
           Append(formatted_results, format_idea(Head(keyword_ideas)))
    /\ keyword_ideas' = Tail(keyword_ideas)
    /\ UNCHANGED <<data, pc, client_calls, rpc_calls, sent, df_sorted,
                   responses, raised, Gcf, thread_vars>>

\* Line 81: the pager raises while it fetches the next page of results
IterationRaises ==
    /\ pc = "format"
    /\ keyword_ideas # <<>>
    /\ \E ex \in GoogleAdsExceptions \cup {TransportError} : Raise(ex)
    /\ UNCHANGED <<data, client_calls, rpc_calls, sent, keyword_ideas,
                   formatted_results, df_sorted, Gcf, thread_vars>>

\* Lines 95-104: the chart when asked for and there is data, then the
\* response; create_visualization may raise
Respond ==
    /\ pc = "format"
    /\ keyword_ideas = <<>>
    /\ IF Truthy(List(formatted_results))
          /\ Truthy(data_create_visualization(data))
       THEN \/ \E rows \in sort_values(DataFrame(formatted_results)) :
                   LET cv == create_visualization(Gcf, rows)
                   IN  /\ Gcf' = cv.Gcf
                       /\ df_sorted' = head(rows, HeadRows)
                       /\ Return(response_data(formatted_results, cv.graphic))
                       /\ UNCHANGED raised
            \/ /\ Gcf' = plt_figure(Gcf)
               /\ Raise(RenderError)
               /\ UNCHANGED df_sorted
       ELSE /\ Return(response_data(formatted_results, PyNone))
            /\ UNCHANGED <<Gcf, df_sorted, raised>>
    /\ UNCHANGED <<data, client_calls, rpc_calls, sent, keyword_ideas,
                   formatted_results, thread_vars>>

Next ==
    \/ Validate
    \/ GetClient
    \/ GenerateKeywordIdeas
    \/ FormatIdea
    \/ IterationRaises
    \/ Respond

Spec == Init /\ [][Next]_vars

----------------------------------------------------------------------------
(* SpecGen: generate_keyword_ideas called on its own, over the whole of the *)
(* two mapping tables.  data holds the arguments of the call.               *)

Languages ==
    { Str(c) : c \in DOMAIN language_mapping } \cup
    { Str(<<"EN">>), Str(<<"xx">>), Str(<<>>), Str(<<"languageConstants">>),
      Str(<<"languageConstants/", "1010">>), PyNone }

Locations ==
    { Str(c) : c \in DOMAIN location_mapping } \cup
    { Str(<<"us">>), Str(<<"ZZ">>), Str(<<>>), Str(<<"geoTargetConstants">>),
      Str(<<"geoTargetConstants/", "2392">>), PyNone }

Arguments ==
    [customer_id : {Str(<<"1234567890">>)},
     keywords : {PyNone, List(<<>>), List(<<"shoes", "boots">>)},
     language : Languages,
     location : Locations,
     page_url : {PyNone, Str(<<"https://example.com/">>)},
     competitors_domains : {PyNone, List(<<"a.com", "b.com">>)}]

InitGen ==
    /\ data \in Arguments
    /\ pc = "generate"
    /\ client_calls = 0
    /\ rpc_calls = 0
    /\ sent = <<>>
    /\ keyword_ideas = <<>>
    /\ formatted_results = <<>>
    /\ df_sorted = <<>>
    /\ responses = <<>>
    /\ raised = <<>>
    /\ Gcf = <<>>
    /\ th_pc = <<>>
    /\ th_data = <<>>
    /\ th_sorted = <<>>
    /\ th_graphic = <<>>

\* Lines 120-202: the request is built and sent, or the call raises
Generate ==
    /\ pc = "generate"
    /\ LET b == build_request(data.customer_id, data.keywords, data.language,
                              data.location, data.page_url,
                              data.competitors_domains)
       IN  IF ~b.ok
           THEN /\ pc' = "raised"
                /\ raised' = Append(raised, b.exc)
                /\ UNCHANGED <<rpc_calls, sent, keyword_ideas>>
           ELSE /\ rpc_calls' = rpc_calls + 1
                /\ sent' = Append(sent, b.request)
                /\ \E ideas \in SeqsUpTo(SampleIdeas, MaxIdeas) :
                       keyword_ideas' = ideas
                /\ pc' = "returned"
                /\ UNCHANGED raised
    /\ UNCHANGED <<data, client_calls, formatted_results, df_sorted,
                   responses, Gcf, thread_vars>>

NextGen == Generate

SpecGen == InitGen /\ [][NextGen]_vars

----------------------------------------------------------------------------
(* SpecViz: create_visualization called on lists of up to MaxData entries, *)
(* with and without entries of equal search volume.                        *)

\* n entries; entry i has the text <<"keyword", i>> and, by the pattern,
\* the volume 10*i (ascending) or 10*(n+1-i) (descending), except that the
\* entries of `ties` all have the volume of the first of them
Entries(n, ascending, ties) ==
    LET base(i) == IF ascending THEN 10 * i ELSE 10 * (n + 1 - i)
        first == CHOOSE i \in ties : \A j \in ties : i <= j
    IN  [i \in 1 .. n |->
            [text |-> <<"keyword", i>>,
             search_volume |-> IF i \in ties THEN base(first) ELSE base(i)]]

KeywordData ==
    { <<>> } \cup
    { Entries(n, asc, {a, b, c}) :
        n \in 1 .. MaxData, asc \in BOOLEAN,
        a \in 1 .. MaxData, b \in 1 .. MaxData, c \in 1 .. MaxData }

InitViz ==
    /\ formatted_results \in KeywordData
    /\ pc = "visualize"
    /\ data = <<>>
    /\ client_calls = 0
    /\ rpc_calls = 0
    /\ sent = <<>>
    /\ keyword_ideas = <<>>
    /\ df_sorted = <<>>
    /\ responses = <<>>
    /\ raised = <<>>
    /\ Gcf = <<>>
    /\ th_pc = <<>>
    /\ th_data = <<>>
    /\ th_sorted = <<>>
    /\ th_graphic = <<>>

\* Lines 204-230, one call
Visualize ==
    /\ pc = "visualize"
    /\ \E rows \in sort_values(DataFrame(formatted_results)) :
           LET cv == create_visualization(Gcf, rows)
           IN  /\ Gcf' = cv.Gcf
               /\ df_sorted' = head(rows, HeadRows)
               /\ responses' = <<cv.graphic>>
    /\ pc' = "done"
    /\ UNCHANGED <<data, client_calls, rpc_calls, sent, keyword_ideas,
                   formatted_results, raised, thread_vars>>

NextViz == Visualize

SpecViz == InitViz /\ [][NextViz]_vars

----------------------------------------------------------------------------
(* SpecConc: the server handles each request on its own thread (app.run's  *)
(* default); NumThreads of them are inside create_visualization, each with *)
(* its own keyword_data, and one statement of a thread is one step.        *)

Threads == 1 .. NumThreads

\* The keyword_data of thread t's request: its texts name the thread
ThreadData(t) ==
    LET entry(i) == [text |-> <<"keyword", t, i>>, search_volume |-> 100 * t + i]
    IN  { <<entry(1)>>, <<entry(1), entry(2)>> }

InitConc ==
    /\ th_data \in [Threads -> UNION { ThreadData(t) : t \in Threads }]
    /\ \A t \in Threads : th_data[t] \in ThreadData(t)
    /\ th_pc = [t \in Threads |-> "line206"]
    /\ th_sorted = [t \in Threads |-> <<>>]
    /\ th_graphic = [t \in Threads |-> PyNone]
    /\ Gcf = <<>>
    /\ data = <<>>
    /\ pc = "serving"
    /\ client_calls = 0
    /\ rpc_calls = 0
    /\ sent = <<>>
    /\ keyword_ideas = <<>>
    /\ formatted_results = <<>>
    /\ df_sorted = <<>>
    /\ responses = <<>>
    /\ raised = <<>>

\* A statement of thread t that touches only the thread's locals
Local(t, from, to) ==
    /\ th_pc[t] = from
    /\ th_pc' = [th_pc EXCEPT ![t] = to]
    /\ UNCHANGED <<Gcf, th_data, th_sorted, th_graphic, handler_vars>>

\* A pyplot statement of thread t: it acts on the registry's current figure
Pyplot(t, from, to, g) ==
    /\ th_pc[t] = from
    /\ th_pc' = [th_pc EXCEPT ![t] = to]
    /\ Gcf' = g
    /\ UNCHANGED <<th_data, th_sorted, th_graphic, handler_vars>>

\* df = pd.DataFrame(keyword_data)
cv_DataFrame(t) == Local(t, "line206", "line209")

\* plt.figure(figsize=(12, 6))
cv_figure(t) == Pyplot(t, "line209", "line212", plt_figure(Gcf))

\* df_sorted = df.sort_values('search_volume', ascending=False).head(15)
cv_sort(t) ==
    /\ th_pc[t] = "line212"
    /\ \E rows \in sort_values(DataFrame(th_data[t])) :
           th_sorted' = [th_sorted EXCEPT ![t] = head(rows, HeadRows)]
    /\ th_pc' = [th_pc EXCEPT ![t] = "line215"]
    /\ UNCHANGED <<Gcf, th_data, th_graphic, handler_vars>>

\* plt.bar(df_sorted['text'], df_sorted['search_volume'])
cv_bar(t) == Pyplot(t, "line215", "line216", plt_bar(Gcf, th_sorted[t]))

\* plt.xticks(rotation=45, ha='right')
cv_xticks(t) == Pyplot(t, "line216", "line217", plt_xticks(Gcf))

\* plt.xlabel('Keywords')
cv_xlabel(t) == Pyplot(t, "line217", "line218", plt_xlabel(Gcf))

\* plt.ylabel('Average Monthly Searches')
cv_ylabel(t) == Pyplot(t, "line218", "line219", plt_ylabel(Gcf))

\* plt.title('Keyword Popularity')
cv_title(t) == Pyplot(t, "line219", "line220", plt_title(Gcf))

\* plt.tight_layout()
cv_tight_layout(t) == Pyplot(t, "line220", "line224", plt_tight_layout(Gcf))

\* buffer = io.BytesIO(); plt.savefig(buffer, format='png'); ...;
\* graphic = base64.b64encode(image_png).decode('utf-8'); return graphic
cv_savefig(t) ==
    /\ th_pc[t] = "line224"
    /\ th_graphic' = [th_graphic EXCEPT ![t] = b64encode(plt_savefig(Gcf))]
    /\ th_pc' = [th_pc EXCEPT ![t] = "returned"]
    /\ UNCHANGED <<Gcf, th_data, th_sorted, handler_vars>>

NextConc ==
    \E t \in Threads :
        \/ cv_DataFrame(t)
        \/ cv_figure(t)
        \/ cv_sort(t)
        \/ cv_bar(t)
        \/ cv_xticks(t)
        \/ cv_xlabel(t)
        \/ cv_ylabel(t)
        \/ cv_title(t)
        \/ cv_tight_layout(t)
        \/ cv_savefig(t)

SpecConc == InitConc /\ [][NextConc]_vars

----------------------------------------------------------------------------
(* Properties of the handler, checked under Spec *)

\* A field of the body that is absent, null or empty
IsEmptyOrAbsent(x) ==
    \/ x.t \in {"absent", "None"}
    \/ x.t \in {"str", "list"} /\ Len(x.v) = 0

\* The body names no customer id, or no seed in keywords, page_url and the
\* competitor-domain list the handler reads (competitors_domains)
NothingToSearch ==
    \/ IsEmptyOrAbsent(data.customer_id)
    \/ /\ IsEmptyOrAbsent(data.keywords)
       /\ IsEmptyOrAbsent(data.page_url)
       /\ IsEmptyOrAbsent(data.competitors_domains)

\* C1: a request whose keywords, page_url and competitor-domain list are all
\* empty or absent, or whose customer_id is missing or empty, is answered
\* with HTTP 400, and at no point of its execution, before or after the
\* response, has get_google_ads_client been called or a
\* generate_keyword_ideas request been sent to the provider.
C1_RejectedBeforeProvider ==
    NothingToSearch =>
        /\ client_calls = 0
        /\ rpc_calls = 0
        /\ sent = <<>>
        /\ pc \in {"recv", "done"}
        /\ pc = "recv" => responses = <<>>
        /\ pc = "done" =>
               /\ Len(responses) = 1
               /\ responses[1].status = 400
               /\ "error" \in DOMAIN responses[1].body

\* A request with a customer id and no seed has been answered
C1_Witness ==
    /\ pc = "done"
    /\ ~IsEmptyOrAbsent(data.customer_id)
    /\ data.keywords = List(<<>>)
    /\ data.page_url = Str(<<>>)
    /\ data.competitors_domains.t = "absent"
    /\ responses[1].status = 400

\* C2: whenever a GoogleAdsException is raised while the request is handled
\* (by the RPC or by the pager during formatting), the response is HTTP 400,
\* its "error" carries the exception's error code name and, when the failure
\* has at least one error, its "detail" is the first error's message.
C2_ProviderErrorIs400 ==
    \A i \in DOMAIN raised :
        raised[i].type = "GoogleAdsException" =>
            /\ Len(responses) = 1
            /\ responses[1].status = 400
            /\ DOMAIN responses[1].body = {"error", "detail"}
            /\ \E k \in DOMAIN responses[1].body.error :
                   responses[1].body.error[k] = raised[i].code
            /\ raised[i].errors # <<>> =>
                   responses[1].body.detail = raised[i].errors[1]

\* RESOURCE_EXHAUSTED with two messages was raised by the pager after an
\* idea had been formatted
C2_Witness ==
    /\ pc = "done"
    /\ formatted_results # <<>>
    /\ raised # <<>>
    /\ raised[1].type = "GoogleAdsException"
    /\ raised[1].code = "RESOURCE_EXHAUSTED"
    /\ Len(raised[1].errors) = 2
    /\ responses[1].body.detail = <<"Too many requests">>

\* C3: every response has either "keyword_ideas" (status 200) or "error"
\* (status 400 or 500), never both, and a request is answered once; the
\* response to a failure has no key but "error" and "detail", and no text of
\* an idea formatted before the failure is in either.
C3_AllOrNothing ==
    /\ Len(responses) <= 1
    /\ \A i \in DOMAIN responses :
           LET r == responses[i]
           IN  \/ /\ "keyword_ideas" \in DOMAIN r.body
                  /\ "error" \notin DOMAIN r.body
                  /\ r.status = 200
                  /\ raised = <<>>
               \/ /\ "error" \in DOMAIN r.body
                  /\ "keyword_ideas" \notin DOMAIN r.body
                  /\ r.status \in {400, 500}
                  /\ DOMAIN r.body \subseteq {"error", "detail"}
                  /\ \A k \in DOMAIN r.body : \A j \in DOMAIN r.body[k] :
                         r.body[k][j] \notin
                             { formatted_results[n].text :
                                   n \in DOMAIN formatted_results }

\* create_visualization failed after two ideas had been formatted
C3_Witness ==
    /\ pc = "done"
    /\ Len(formatted_results) = 2
    /\ raised = <<RenderError>>
    /\ responses[1].status = 500

\* C9: in the response of a request that passed validation and raised no
\* exception, "visualization" is a key exactly when the formatted list is
\* not empty and create_visualization is true or absent; with an empty list
\* the key is missing (not null) whatever the flag, and the response is 200
\* with "keyword_ideas" the formatted list, empty when it is empty.
C9_VisualizationKey ==
    (pc = "done" /\ raised = <<>> /\ ~NothingToSearch) =>
        LET r == responses[1]
            asked == \/ data.create_visualization.t = "absent"
                     \/ data.create_visualization = Bool(TRUE)
        IN  /\ r.status = 200
            /\ r.body.keyword_ideas = formatted_results
            /\ "visualization" \in DOMAIN r.body
                   <=> (formatted_results # <<>> /\ asked)
            /\ "visualization" \in DOMAIN r.body =>
                   /\ r.body.visualization.t = "str"
                   /\ Len(r.body.visualization.v) > 0

\* No idea came back, a chart was asked for, and the key is not there
C9_Witness ==
    /\ pc = "done"
    /\ raised = <<>>
    /\ rpc_calls = 1
    /\ formatted_results = <<>>
    /\ data.create_visualization = Bool(TRUE)
    /\ responses[1].status = 200
    /\ DOMAIN responses[1].body = {"keyword_ideas"}

\* The request has a customer id and one seed only: a non-empty list of
\* domains under the key `field`
OnlyDomainsUnder(field) ==
    /\ ~IsEmptyOrAbsent(data.customer_id)
    /\ data.keywords.t = "absent"
    /\ data.page_url.t = "absent"
    /\ \A f \in {"competitors_domains", "competitor_domains"} :
           IF f = field
           THEN data[f].t = "list" /\ Len(data[f].v) > 0
           ELSE data[f].t = "absent"

\* The request is not answered 400 by the validation (a 400 with nothing
\* raised), and every provider request built for it has a SiteSeed with the
\* domains of `field` in order
AcceptedWithSiteSeed(field) ==
    /\ \A i \in DOMAIN responses :
           ~(responses[i].status = 400 /\ raised = <<>>)
    /\ Len(sent) = rpc_calls
    /\ (pc = "done" /\ raised = <<>>) => Len(sent) = 1
    /\ \A i \in DOMAIN sent :
           /\ "site_seed" \in DOMAIN sent[i].seed
           /\ sent[i].seed["site_seed"].sites = data[field].v

\* C5 as stated: a request with a customer id whose only seed is a non-empty
\* list under the key competitor_domains is not rejected by the validation,
\* and its provider request carries a SiteSeed with exactly those domains.
C5_AcceptedUnderSpecName ==
    OnlyDomainsUnder("competitor_domains") =>
        AcceptedWithSiteSeed("competitor_domains")

\* C5, amended: the same for the key the handler reads, competitors_domains.
C5_AcceptedUnderCodeName ==
    OnlyDomainsUnder("competitors_domains") =>
        AcceptedWithSiteSeed("competitors_domains")

\* Such a request got its ideas and was answered 200
C5_Witness ==
    /\ OnlyDomainsUnder("competitors_domains")
    /\ pc = "done"
    /\ Len(sent) = 1
    /\ sent[1].seed["site_seed"].sites = <<"a.com", "b.com">>
    /\ formatted_results # <<>>
    /\ responses[1].status = 200

\* The language identifiers the mapping is documented with
DocumentedLanguage(code) ==
    CASE code = <<"en">> -> <<"languageConstants/", "1000">>
      [] code = <<"es">> -> <<"languageConstants/", "1003">>
      [] code = <<"fr">> -> <<"languageConstants/", "1002">>
      [] code = <<"de">> -> <<"languageConstants/", "1001">>
      [] code = <<"pt">> -> <<"languageConstants/", "1014">>
      [] code = <<"it">> -> <<"languageConstants/", "1004">>
      [] code = <<"ru">> -> <<"languageConstants/", "1031">>
      [] code = <<"ja">> -> <<"languageConstants/", "1005">>
      [] code = <<"zh">> -> <<"languageConstants/", "1017">>
      [] OTHER -> IF code # <<>> /\ code[1] = "languageConstants/"
                  THEN code
                  ELSE <<"languageConstants/", "1000">>

\* generate_keyword_ideas has been called for the request
GenerateCalled ==
    /\ pc \in {"format", "done"}
    /\ client_calls = 1
    /\ \A i \in DOMAIN raised : raised[i].type # "ValueError"

\* C8 as stated: for every language value of a request that reaches
\* generate_keyword_ideas (absent, hence "en", or whatever was supplied) no
\* error is raised over it and the provider request has the language set:
\* the documented identifier for a code of the table, the value itself when
\* it starts with "languageConstants/", languageConstants/1000 otherwise.
C8_LanguageAlwaysSet ==
    (GenerateCalled /\ data.location.t \in {"absent", "str"}) =>
        /\ \A i \in DOMAIN raised : raised[i].type # "AttributeError"
        /\ Len(sent) = 1
        /\ sent[1].language =
               DocumentedLanguage(IF data.language.t = "str"
                                  THEN data.language.v
                                  ELSE <<"en">>)

\* C10 as stated: the provider request sent by generate_keyword_ideas holds a
\* KeywordSeed iff keywords is non-empty, a UrlSeed iff page_url is non-empty
\* and a SiteSeed iff the competitor-domain list is non-empty, each with the
\* caller's values in order: a seed attached later removes none attached
\* before.
C10_AllSeedsSent ==
    \A i \in DOMAIN sent :
        LET seed == sent[i].seed
        IN  /\ "keyword_seed" \in DOMAIN seed
                   <=> ~IsEmptyOrAbsent(data.keywords)
            /\ "url_seed" \in DOMAIN seed
                   <=> ~IsEmptyOrAbsent(data.page_url)
            /\ "site_seed" \in DOMAIN seed
                   <=> ~IsEmptyOrAbsent(data.competitors_domains)
            /\ "keyword_seed" \in DOMAIN seed =>
                   seed["keyword_seed"].keywords = data.keywords.v
            /\ "url_seed" \in DOMAIN seed =>
                   seed["url_seed"].url = data.page_url.v
            /\ "site_seed" \in DOMAIN seed =>
                   seed["site_seed"].sites = data.competitors_domains.v

----------------------------------------------------------------------------
(* Properties of generate_keyword_ideas, checked under SpecGen *)

\* The geo-target identifiers the mapping is documented with; US for the rest
DocumentedGeoTarget(code) ==
    CASE code = <<"US">> -> <<"geoTargetConstants/", "2840">>
      [] code = <<"CA">> -> <<"geoTargetConstants/", "2124">>
      [] code = <<"GB">> -> <<"geoTargetConstants/", "2826">>
      [] code = <<"AU">> -> <<"geoTargetConstants/", "2036">>
      [] code = <<"DE">> -> <<"geoTargetConstants/", "2276">>
      [] code = <<"FR">> -> <<"geoTargetConstants/", "2250">>
      [] code = <<"ES">> -> <<"geoTargetConstants/", "2724">>
      [] OTHER -> IF code # <<>> /\ code[1] = "geoTargetConstants/"
                  THEN code
                  ELSE <<"geoTargetConstants/", "2840">>

\* C7 as stated: for every location string, the empty one included, the
\* provider request carries exactly one geo-target value: the documented
\* identifier for a code of the table, the string itself when it starts with
\* "geoTargetConstants/", geoTargetConstants/2840 for every other string.
C7_OneGeoTarget ==
    (data.location.t = "str" /\ data.language.t = "str") =>
        /\ pc # "raised"
        /\ Len(sent) = rpc_calls
        /\ pc = "returned" => Len(sent) = 1
        /\ \A i \in DOMAIN sent :
               sent[i].geo_target_constants =
                   << DocumentedGeoTarget(data.location.v) >>

\* C7, amended: the same for every location string but the empty one, for
\* which the provider request carries no geo-target value.
C7_OneGeoTargetUnlessEmpty ==
    (data.location.t = "str" /\ data.language.t = "str") =>
        /\ pc # "raised"
        /\ Len(sent) = rpc_calls
        /\ pc = "returned" => Len(sent) = 1
        /\ \A i \in DOMAIN sent :
               sent[i].geo_target_constants =
                   IF data.location.v = <<>>
                   THEN <<>>
                   ELSE << DocumentedGeoTarget(data.location.v) >>

\* A request was sent for a code of the table written in lower case
C7_Witness ==
    /\ pc = "returned"
    /\ data.location = Str(<<"us">>)
    /\ sent[1].geo_target_constants = << <<"geoTargetConstants/", "2840">> >>

----------------------------------------------------------------------------
(* Properties of create_visualization's ranking, checked under SpecViz *)

\* The rows of a DataFrame sorted by search_volume descending with a stable
\* sort: among equal volumes, the row that came first from the provider
RECURSIVE StableDescending(_)
StableDescending(rows) ==
    IF rows = {} THEN <<>>
    ELSE LET r == CHOOSE x \in rows :
                      \A y \in rows :
                          \/ x.search_volume > y.search_volume
                          \/ /\ x.search_volume = y.search_volume
                             /\ x.index <= y.index
         IN  <<r>> \o StableDescending(rows \ {r})

\* The bars of the chart the call returned, left to right
PlottedBars == figure_of(responses[1]).bars

\* The bars a sequence of rows is drawn as
BarsOf(rows) ==
    [i \in 1 .. Len(rows) |->
        [x |-> rows[i].text, height |-> rows[i].search_volume]]

\* The first 15 of a sequence
First15(q) == SubSeq(q, 1, IF Len(q) < 15 THEN Len(q) ELSE 15)

\* C6 as stated: the entries plotted are exactly the first 15 of the list
\* sorted by search volume descending with a stable sort (all of them, in
\* that order, for a list of at most 15): entries of equal volume keep the
\* provider's order, in the selection at the cut-off and in the chart.
C6_StableTop15 ==
    pc = "done" =>
        PlottedBars =
            BarsOf(First15(StableDescending(DataFrame(formatted_results))))

\* C6, amended: the entries plotted are min(15, n) distinct entries of the
\* list, drawn left to right in descending search volume, and no entry left
\* out has a larger volume than one plotted; entries of equal volume come in
\* no particular order.  Without equal volumes it is the stable order.
C6_Top15Descending ==
    pc = "done" =>
        LET df == DataFrame(formatted_results)
            n == Len(formatted_results)
        IN  /\ Len(df_sorted) = IF n < 15 THEN n ELSE 15
            /\ PlottedBars = BarsOf(df_sorted)
            /\ \A i \in DOMAIN df_sorted : df_sorted[i] \in df
            /\ \A i, j \in DOMAIN df_sorted :
                   i < j => /\ df_sorted[i] # df_sorted[j]
                            /\ df_sorted[i].search_volume
                                   >= df_sorted[j].search_volume
            /\ \A r \in df :
                   (\A i \in DOMAIN df_sorted : df_sorted[i] # r) =>
                       \A i \in DOMAIN df_sorted :
                           r.search_volume <= df_sorted[i].search_volume
            /\ (\A r, q \in df : r # q => r.search_volume # q.search_volume)
                   => df_sorted = First15(StableDescending(df))

\* Of 16 entries the two with the smallest volume are equal, and the chart
\* shows the later of them
C6_Witness ==
    /\ pc = "done"
    /\ Len(formatted_results) = 16
    /\ formatted_results[1].search_volume = formatted_results[2].search_volume
    /\ \A i \in 3 .. 16 :
           formatted_results[i].search_volume
               > formatted_results[1].search_volume
    /\ Len(PlottedBars) = 15
    /\ PlottedBars[15].x = formatted_results[2].text

----------------------------------------------------------------------------
(* Properties of concurrent calls of create_visualization, under SpecConc *)

\* C4 as stated: whatever the interleaving of the requests inside
\* create_visualization, the image a call returns shows exactly the bars,
\* labels and title made from that call's own keyword_data, and once the
\* calls have returned no figure of theirs is left in pyplot's registry.
C4_RenderingConfined ==
    /\ \A t \in Threads :
           th_pc[t] = "returned" =>
               LET f == figure_of(th_graphic[t])
               IN  /\ f.bars = BarsOf(th_sorted[t])
                   /\ f.xticks = <<"45", "right">>
                   /\ f.xlabel = <<"Keywords">>
                   /\ f.ylabel = <<"Average Monthly Searches">>
                   /\ f.title = <<"Keyword Popularity">>
    /\ (\A t \in Threads : th_pc[t] = "returned") => Gcf = <<>>

====
